---- MODULE Spec2Model ----
(***************************************************************************)
(* A model of langdist's CharLSTM (src/langdist/langmodel.py): target      *)
(* construction and padding, the training loop with its validation         *)
(* schedule and keep-best checkpointing, and the autoregressive sampler    *)
(* with top-k truncation.  The tensor computation itself (session.run) is  *)
(* an oracle: a validation yields some perplexity, a forward step yields   *)
(* some distribution per row and a recurrent state per row.                *)
(***************************************************************************)
EXTENDS Integers, Sequences, FiniteSets, TLC

\* ------------------------------------------------------------------ bounds
\* longest encoded paragraph of a batch handed to the target/padding builder
MaxLen == 3
\* largest batch (builder) and largest batch_size (training)
MaxBatch == 2
\* largest max_iteration / patience budget drawn for a training run
MaxIter == 4
\* largest finite validation perplexity the validation oracle returns
MaxPerplexity == 2
\* batches the schedule run may process (the default schedule holds from 512)
MaxScheduleIter == 1600
\* largest sample_num of a sampling call
MaxSamples == 3
\* largest max_char_len of a sampling call
MaxCharLen == 4
\* longest encoded prompt of a sampling call
MaxPromptLen == 2
\* most sequences of a validation split
MaxValid == 8
\* largest valid_batch_num (10 is the default)
MaxValidBatchNum == 10
\* largest vocabulary the top-k truncation is tried on (above the default k)
MaxVocab == 11

\* ------------------------------------------------------- program constants
\* CharLSTM._padding_id
padding_id == 0

\* np.float64('inf'): above every finite perplexity
Inf == MaxPerplexity + 1

\* valid_intervals = [2**i for i in range(10)]
DefaultValidIntervals == <<1, 2, 4, 8, 16, 32, 64, 128, 256, 512>>

\* character ids of the encoded paragraphs the builder is tried on; id 0 is a
\* character of its own besides being the padding id (langmodel.py:28)
CharIds == {0, 1}

\* paragraph border ids the encoder may have fixed: equal to the padding id,
\* equal to a character of the batch, or different from both
BorderIds == {0, 1, 2}

\* ----------------------------------------------------------------- helpers
SeqsUpTo(S, n) == UNION {[1..k -> S] : k \in 0..n}

MaxOf(S) == CHOOSE m \in S : \A x \in S : x <= m

MinOf(S) == CHOOSE m \in S : \A x \in S : m <= x

Pad(n) == [i \in 1..n |-> padding_id]

VARIABLES
    \* the instance
    paragraph_border_id, vocab_size,
    \* target/padding builder applied to one batch
    b_pc, b_labels, b_raw, bX, bY, b_lens,
    \* train(): arguments
    batch_size, max_iteration, patience, valid_intervals,
    \* train(): the object store (lists are mutable objects), the collections
    heap, X_train, encoded, gen_pos, gen_restarts,
    \* train(): loop state
    pc, batch_id, iteration, epoch, valid_interval, best_perplexity, perplexity,
    X_batch, Y_batch, seq_lens, batch_first, params, checkpoint,
    \* train(): history of the run
    observed, valid_batches, n_samples,
    \* _sample(): arguments (prompts is the list of encoded prompts, <<>> for
    \* None or an empty list)
    sample_num, max_char_len, pick_top_k_arg, pick_top_k, prompts,
    \* _sample(): loop state
    s_pc, paragraphs, paragraph_ids, sX, s_seq_lens, initial_states,
    Y_prob_in, Y_prob, sampled_char_ids, result,
    \* _sample(): history of the call
    finished, steps,
    \* _sample(): the positions <<p, i>> at which paragraphs[p] holds a list
    \* instead of a character id
    nested,
    \* validate(): the validation split (its sequences, by number), the
    \* argument valid_batch_num, the loop over index, the batches fed so far
    X_valid, valid_batch_num, v_pc, v_index, v_batches

instance_vars == <<paragraph_border_id, vocab_size>>

builder_vars == <<b_pc, b_labels, b_raw, bX, bY, b_lens>>

train_args == <<batch_size, max_iteration, patience>>

train_store == <<heap, X_train, encoded, gen_pos, gen_restarts>>

train_loop == <<pc, batch_id, iteration, epoch, valid_interval, valid_intervals,
                best_perplexity, perplexity, X_batch, Y_batch, seq_lens, batch_first,
                params, checkpoint, observed, valid_batches, n_samples>>

train_vars == <<train_args, train_store, train_loop>>

sampler_vars == <<sample_num, max_char_len, pick_top_k_arg, pick_top_k, s_pc,
                  paragraphs, paragraph_ids, sX, s_seq_lens, initial_states,
                  Y_prob_in, Y_prob, sampled_char_ids, result, finished, steps,
                  prompts, nested>>

valid_vars == <<X_valid, valid_batch_num, v_pc, v_index, v_batches>>

vars == <<instance_vars, builder_vars, train_vars, sampler_vars, valid_vars>>

\* ------------------------------------------- _create_Y and _add_padding
\* a slip: the border is appended to x instead of inserted at index 0
InsertBorderAtEnd(x, T) == Append(x, T)

\* x.insert(0, self._paragraph_border_id)
InsertBorder(x, T) == <<T>> \o x

\* y = copy(x); y.append(self._paragraph_border_id)
AppendBorder(x, T) == Append(x, T)

\* _create_Y: the inputs after the loop
CreateX(X, T) == [j \in DOMAIN X |-> InsertBorder(X[j], T)]

\* _create_Y: the labels Y
CreateY(X, T) == [j \in DOMAIN X |-> AppendBorder(X[j], T)]

\* max_len = max(len(x) for x in X)
MaxLenOf(X) == MaxOf({Len(X[j]) : j \in DOMAIN X})

\* a slip: the pad length is one too long
PadLenOffByOne(x, max_len) == max_len - Len(x) + 1

\* pad_len = max_len - len(x)
PadLen(x, max_len) == max_len - Len(x)

\* x.extend([self._padding_id for _ in range(pad_len)])
Extend(x, pad_len) == x \o Pad(pad_len)

\* _add_padding: the padded X
PadX(X) == [j \in DOMAIN X |-> Extend(X[j], PadLen(X[j], MaxLenOf(X)))]

\* _add_padding: the padded Y (pad_len is computed from x, the zip partner)
PadY(X, Y) == [j \in DOMAIN X |-> Extend(Y[j], PadLen(X[j], MaxLenOf(X)))]

\* _add_padding: seq_lens.append(len(x)), before x is extended
SeqLens(X) == [j \in DOMAIN X |-> Len(X[j])]

\* --------------------------------------------- the builder on one batch
\* a non-empty batch of ragged encoded paragraphs; Y is None (inference) or
\* is built by _create_Y (training and validation)
InitBuilder ==
    /\ paragraph_border_id \in BorderIds
    /\ vocab_size = Cardinality(CharIds \cup BorderIds)
    /\ b_labels \in BOOLEAN
    /\ bX \in UNION {[1..n -> SeqsUpTo(CharIds, MaxLen)] : n \in 1..MaxBatch}
    /\ b_raw = bX
    /\ bY = <<>>
    /\ b_lens = <<>>
    /\ b_pc = "start"

\* X, Y = self._create_Y(X)
BuildCreateY ==
    /\ b_pc = "start"
    /\ b_labels
    /\ bX' = CreateX(bX, paragraph_border_id)
    /\ bY' = CreateY(bX, paragraph_border_id)
    /\ b_pc' = "created"
    /\ UNCHANGED <<b_labels, b_raw, b_lens>>

\* X, Y, seq_lens = self._add_padding(X, Y)
BuildPadWithY ==
    /\ b_pc = "created"
    /\ bX' = PadX(bX)
    /\ bY' = PadY(bX, bY)
    /\ b_lens' = SeqLens(bX)
    /\ b_pc' = "padded"
    /\ UNCHANGED <<b_labels, b_raw>>

\* X, seq_lens = self._add_padding(X)
BuildPadNoY ==
    /\ b_pc = "start"
    /\ ~b_labels
    /\ bX' = PadX(bX)
    /\ b_lens' = SeqLens(bX)
    /\ b_pc' = "padded"
    /\ UNCHANGED <<b_labels, b_raw, bY>>

BuilderIdle ==
    /\ b_pc = "idle"
    /\ b_labels = FALSE
    /\ b_raw = <<>>
    /\ bX = <<>>
    /\ bY = <<>>
    /\ b_lens = <<>>

NextBuilder ==
    \/ BuildCreateY /\ UNCHANGED <<instance_vars, train_vars, sampler_vars, valid_vars>>
    \/ BuildPadWithY /\ UNCHANGED <<instance_vars, train_vars, sampler_vars, valid_vars>>
    \/ BuildPadNoY /\ UNCHANGED <<instance_vars, train_vars, sampler_vars, valid_vars>>

\* no sampling call
SamplerIdle ==
    /\ sample_num = 0
    /\ max_char_len = 0
    /\ pick_top_k_arg = [kind |-> "omitted", val |-> 0]
    /\ pick_top_k = [kind |-> "none", val |-> 0]
    /\ s_pc = "idle"
    /\ paragraphs = <<>>
    /\ paragraph_ids = <<>>
    /\ sX = <<>>
    /\ s_seq_lens = <<>>
    /\ initial_states = <<>>
    /\ Y_prob_in = <<>>
    /\ Y_prob = <<>>
    /\ sampled_char_ids = <<>>
    /\ result = <<>>
    /\ finished = {}
    /\ steps = 0
    /\ prompts = <<>>
    /\ nested = {}

\* no validation is looked into
ValidIdle ==
    /\ X_valid = <<>>
    /\ valid_batch_num = 1
    /\ v_pc = "idle"
    /\ v_index = 0
    /\ v_batches = <<>>

\* ------------------------------------------------------------ train()
\* encoded training collections (X_train after train_test_split), with the
\* encoder's border id and vocabulary size; the first is "ab", "abc"
Corpora ==
    { [X |-> << <<1, 2>>, <<1, 2, 3>> >>, T |-> 4, vocab |-> 5],
      [X |-> << <<>>, <<2>>, <<0, 1>> >>, T |-> 3, vocab |-> 4],
      [X |-> << <<1>> >>, T |-> 0, vocab |-> 2] }

\* valid_intervals arguments: None (the default list) or a list of the caller
Schedules == {DefaultValidIntervals, <<2, 3>>}

\* what a validation can measure: exp(mean loss), finite or overflowed to inf
Perplexities == 1..Inf

Min2(a, b) == IF a < b THEN a ELSE b

\* the values of the list objects a list of references names
Deref(h, refs) == [j \in DOMAIN refs |-> h[refs[j]]]

\* in-place mutation of the objects refs names, to vals
WriteBack(h, refs, vals) ==
    [o \in DOMAIN h |->
        IF \E j \in DOMAIN refs : refs[j] = o
        THEN vals[CHOOSE j \in DOMAIN refs : refs[j] = o]
        ELSE h[o]]

\* BatchGenerator: one batch is a contiguous slice of at most batch_size
BatchSlice(X, start, size) ==
    [j \in 1..Min2(size, Len(X) - start) |-> X[start + j]]

\* a batch that shares its list objects with the stored collection
SharedObjects(slice, n) == slice

\* BatchGenerator: the objects of a batch are copies, held apart from the
\* stored collection (objects n+1.. of the store)
BatchObjects(slice, n) == [j \in DOMAIN slice |-> n + j]

\* if batch_id % valid_interval == 0
ShouldValidate(b, interval) == b % interval = 0

\* "keep latest": every validation saves
ShouldSaveAlways(p, best) == TRUE

\* if perplexity < best_perplexity
ShouldSave(p, best) == p < best

\* a slip: the best value is not taken over after the save
NewBestStale(p, best) == best

\* best_perplexity = perplexity, inside the if
NewBest(p, best) == IF ShouldSave(p, best) THEN p ELSE best

\* copy(self) as pickled by _save: the attributes __init__ sets, _graph and
\* _nodes blanked; best_perplexity is a local of train() and no attribute
Instance(T, vocab) ==
    [embedding_size |-> "arg", rnn_size |-> "arg", num_rnn_layers |-> "arg",
     learning_rate |-> "arg", rnn_dropouts |-> "arg", final_dropout |-> "arg",
     nodes |-> "None", graph |-> "None", vocab_size |-> vocab,
     encoder |-> "encoder", num_params |-> "count", paragraph_border |-> "char",
     paragraph_border_id |-> T, session |-> "None"]

\* _save: the session's weights (model.ckpt) and the instance (instance.pkl)
Save(weights, T, vocab) == <<[weights |-> weights, instance |-> Instance(T, vocab)]>>

\* valid_intervals.pop(0) if valid_intervals else valid_interval
NextInterval(interval, intervals) ==
    IF intervals # <<>> THEN Head(intervals) ELSE interval

\* the list after the pop
RestIntervals(intervals) == IF intervals # <<>> THEN Tail(intervals) ELSE <<>>

\* a slip: both budgets must be exceeded
ExhaustedBoth(it, max_it, pat) == it > max_it /\ it > pat

\* if iteration > max_iteration or iteration > patience: break
Exhausted(it, max_it, pat) == it > max_it \/ it > pat

\* the state on entering the for loop (lines 96-122)
InitLoop(corpus, schedule) ==
    /\ paragraph_border_id = corpus.T
    /\ vocab_size = corpus.vocab
    /\ X_train = [i \in 1..Len(corpus.X) |-> i]
    /\ heap = [o \in 1..(Len(corpus.X) + batch_size) |->
                 IF o <= Len(corpus.X) THEN corpus.X[o] ELSE <<>>]
    /\ encoded = corpus.X
    /\ gen_pos = 0
    /\ pc = "fetch"
    /\ batch_id = 0
    /\ iteration = 0
    /\ epoch = 0
    /\ valid_interval = Head(schedule)
    /\ valid_intervals = Tail(schedule)
    /\ best_perplexity = Inf
    /\ perplexity = 0
    /\ X_batch = <<>>
    /\ Y_batch = <<>>
    /\ seq_lens = <<>>
    /\ batch_first = 0
    /\ params = 0
    /\ checkpoint = <<>>
    /\ observed = {}
    /\ valid_batches = <<>>
    /\ n_samples = 0

InitTrain ==
    /\ batch_size \in 1..MaxBatch
    /\ max_iteration \in 0..MaxIter
    /\ patience \in 0..MaxIter
    /\ gen_restarts \in BOOLEAN
    /\ \E corpus \in Corpora, schedule \in Schedules : InitLoop(corpus, schedule)

\* for batch_id, X_batch in enumerate(train_batch_generator), and line 125
FetchBatch ==
    /\ pc = "fetch"
    /\ gen_pos < Len(X_train) \/ gen_restarts
    /\ LET n == Len(X_train)
           start == IF gen_pos < n THEN gen_pos ELSE 0
           slice == BatchSlice(X_train, start, batch_size)
           objs == BatchObjects(slice, n)
           cleared == [o \in DOMAIN heap |-> IF o > n THEN <<>> ELSE heap[o]]
       IN /\ heap' = WriteBack(cleared, objs, Deref(heap, slice))
          /\ X_batch' = objs
          /\ batch_first' = start + 1
          /\ gen_pos' = start + Len(slice)
          /\ epoch' = 1 + (iteration \div n)
    /\ Y_batch' = <<>>
    /\ seq_lens' = <<>>
    /\ pc' = "check"
    /\ UNCHANGED <<train_args, X_train, encoded, gen_restarts, batch_id, iteration,
                   valid_interval, valid_intervals, best_perplexity, perplexity,
                   params, checkpoint, observed, valid_batches, n_samples>>

\* the generator is used up: the for loop ends
GeneratorEnds ==
    /\ pc = "fetch"
    /\ gen_pos >= Len(X_train)
    /\ ~gen_restarts
    /\ pc' = "done"
    /\ UNCHANGED <<train_args, train_store, batch_id, iteration, epoch,
                   valid_interval, valid_intervals, best_perplexity, perplexity,
                   X_batch, Y_batch, seq_lens, batch_first, params, checkpoint,
                   observed, valid_batches, n_samples>>

\* best_perplexity = validate(...): the oracle measures p (a validation whose
\* sub-batches all hold sequences; the sub-batches are ValidateBatch below)
Validate(p) ==
    /\ pc = "check"
    /\ ShouldValidate(batch_id, valid_interval)
    /\ perplexity' = p
    /\ checkpoint' = IF ShouldSave(p, best_perplexity)
                     THEN Save(params, paragraph_border_id, vocab_size)
                     ELSE checkpoint
    /\ best_perplexity' = NewBest(p, best_perplexity)
    /\ observed' = observed \cup {<<params, p>>}
    /\ valid_batches' = Append(valid_batches, batch_id)
    /\ pc' = "sample"
    /\ UNCHANGED <<train_args, train_store, batch_id, iteration, epoch,
                   valid_interval, valid_intervals, X_batch, Y_batch, seq_lens,
                   batch_first, params, n_samples>>

\* no validation is due at this batch
SkipValidate ==
    /\ pc = "check"
    /\ ~ShouldValidate(batch_id, valid_interval)
    /\ pc' = "create"
    /\ UNCHANGED <<train_args, train_store, batch_id, iteration, epoch,
                   valid_interval, valid_intervals, best_perplexity, perplexity,
                   X_batch, Y_batch, seq_lens, batch_first, params, checkpoint,
                   observed, valid_batches, n_samples>>

\* self._sample(session), then the next interval is popped
SampleAndSchedule ==
    /\ pc = "sample"
    /\ n_samples' = n_samples + 1
    /\ valid_interval' = NextInterval(valid_interval, valid_intervals)
    /\ valid_intervals' = RestIntervals(valid_intervals)
    /\ pc' = "create"
    /\ UNCHANGED <<train_args, train_store, batch_id, iteration, epoch,
                   best_perplexity, perplexity, X_batch, Y_batch, seq_lens,
                   batch_first, params, checkpoint, observed, valid_batches>>

\* X_batch, Y_batch = self._create_Y(X_batch): x is changed in place
TrainCreateY ==
    /\ pc = "create"
    /\ heap' = WriteBack(heap, X_batch,
                         CreateX(Deref(heap, X_batch), paragraph_border_id))
    /\ Y_batch' = CreateY(Deref(heap, X_batch), paragraph_border_id)
    /\ pc' = "pad"
    /\ UNCHANGED <<train_args, X_train, encoded, gen_pos, gen_restarts, batch_id,
                   iteration, epoch, valid_interval, valid_intervals,
                   best_perplexity, perplexity, X_batch, seq_lens, batch_first,
                   params, checkpoint, observed, valid_batches, n_samples>>

\* _add_padding, the optimizer step, iteration += batch_size, the budget check
TrainStep ==
    /\ pc = "pad"
    /\ heap' = WriteBack(heap, X_batch, PadX(Deref(heap, X_batch)))
    /\ Y_batch' = PadY(Deref(heap, X_batch), Y_batch)
    /\ seq_lens' = SeqLens(Deref(heap, X_batch))
    /\ params' = params + 1
    /\ iteration' = iteration + batch_size
    /\ IF Exhausted(iteration + batch_size, max_iteration, patience)
       THEN pc' = "done" /\ batch_id' = batch_id
       ELSE pc' = "fetch" /\ batch_id' = batch_id + 1
    /\ UNCHANGED <<train_args, X_train, encoded, gen_pos, gen_restarts, epoch,
                   valid_interval, valid_intervals, best_perplexity, perplexity,
                   X_batch, batch_first, checkpoint, observed, valid_batches,
                   n_samples>>

NextTrain ==
    \/ FetchBatch /\ UNCHANGED <<instance_vars, builder_vars, sampler_vars, valid_vars>>
    \/ GeneratorEnds /\ UNCHANGED <<instance_vars, builder_vars, sampler_vars, valid_vars>>
    \/ \E p \in Perplexities : Validate(p)
          /\ UNCHANGED <<instance_vars, builder_vars, sampler_vars, valid_vars>>
    \/ SkipValidate /\ UNCHANGED <<instance_vars, builder_vars, sampler_vars, valid_vars>>
    \/ SampleAndSchedule /\ UNCHANGED <<instance_vars, builder_vars, sampler_vars, valid_vars>>
    \/ TrainCreateY /\ UNCHANGED <<instance_vars, builder_vars, sampler_vars, valid_vars>>
    \/ TrainStep /\ UNCHANGED <<instance_vars, builder_vars, sampler_vars, valid_vars>>

\* train() is called on a fresh instance; nothing else runs
StartTrain == InitTrain /\ BuilderIdle /\ SamplerIdle /\ ValidIdle

SpecTrain == StartTrain /\ [][NextTrain]_vars

\* the interpreter runs train() to its end: a step that can be taken is taken
FairSpecTrain == SpecTrain /\ WF_vars(NextTrain)

\* a long run on the default schedule: one paragraph, batch_size 1, budgets
\* of MaxScheduleIter, a generator that re-scans, a validation that always
\* measures the same perplexity
InitSchedule ==
    /\ batch_size = 1
    /\ max_iteration = MaxScheduleIter
    /\ patience = MaxScheduleIter
    /\ gen_restarts = TRUE
    /\ InitLoop([X |-> << <<1>> >>, T |-> 0, vocab |-> 2], DefaultValidIntervals)

NextSchedule ==
    \/ FetchBatch /\ UNCHANGED <<instance_vars, builder_vars, sampler_vars, valid_vars>>
    \/ Validate(MaxPerplexity)
          /\ UNCHANGED <<instance_vars, builder_vars, sampler_vars, valid_vars>>
    \/ SkipValidate /\ UNCHANGED <<instance_vars, builder_vars, sampler_vars, valid_vars>>
    \/ SampleAndSchedule /\ UNCHANGED <<instance_vars, builder_vars, sampler_vars, valid_vars>>
    \/ TrainCreateY /\ UNCHANGED <<instance_vars, builder_vars, sampler_vars, valid_vars>>
    \/ TrainStep /\ UNCHANGED <<instance_vars, builder_vars, sampler_vars, valid_vars>>

\* train() is called with the default schedule
StartSchedule == InitSchedule /\ BuilderIdle /\ SamplerIdle /\ ValidIdle

SpecSchedule == StartSchedule /\ [][NextSchedule]_vars

\* no training run: the builder is looked at on its own
TrainIdle ==
    /\ batch_size = 1
    /\ max_iteration = 0
    /\ patience = 0
    /\ gen_restarts = FALSE
    /\ X_train = <<>>
    /\ heap = <<>>
    /\ encoded = <<>>
    /\ gen_pos = 0
    /\ pc = "idle"
    /\ batch_id = 0
    /\ iteration = 0
    /\ epoch = 0
    /\ valid_interval = 1
    /\ valid_intervals = <<>>
    /\ best_perplexity = Inf
    /\ perplexity = 0
    /\ X_batch = <<>>
    /\ Y_batch = <<>>
    /\ seq_lens = <<>>
    /\ batch_first = 0
    /\ params = 0
    /\ checkpoint = <<>>
    /\ observed = {}
    /\ valid_batches = <<>>
    /\ n_samples = 0

\* the builder is called on a batch
StartBuilder == InitBuilder /\ TrainIdle /\ SamplerIdle /\ ValidIdle

SpecBuilder == StartBuilder /\ [][NextBuilder]_vars

\* ----------------------------------------------------------- _sample()
\* character ids of a vocabulary of V characters
Ids(V) == 0..(V - 1)

RECURSIVE SumBelow(_, _)
\* y[0] + ... + y[n-1]
SumBelow(y, n) == IF n = 0 THEN 0 ELSE y[n - 1] + SumBelow(y, n - 1)

\* np.sum(y_prob)
Mass(y) == SumBelow(y, Cardinality(DOMAIN y))

RECURSIVE KSubsets(_, _)
\* the subsets of S with r elements
KSubsets(S, r) ==
    IF r = 0 THEN {{}}
    ELSE IF S = {} THEN {}
    ELSE LET x == CHOOSE x \in S : TRUE
         IN {Z \cup {x} : Z \in KSubsets(S \ {x}, r - 1)} \cup KSubsets(S \ {x}, r)

\* the product of the sets S[1], ..., S[n]
Rows(S) == {f \in [DOMAIN S -> UNION {S[j] : j \in DOMAIN S}] :
               \A j \in DOMAIN S : f[j] \in S[j]}

\* what nodes['Y_prob'] can hold for one row: softmax weights (a row of
\* weights y stands for the distribution y / Mass(y)); every row of 1..3 for
\* a small vocabulary, and for every vocabulary the rows 1, 2, ..., V from any
\* starting id (all weights different), 1, 1, 2, 2, ... (equal pairs) and the
\* uniform row
Distributions(V) ==
    {[i \in Ids(V) |-> 1 + (((i + a) % V) \div d)] : a \in Ids(V), d \in {1, 2, V}}
    \cup (IF V <= 3 THEN [Ids(V) -> 1..3] ELSE {})

\* the uniform row
Uniform(V) == {[i \in Ids(V) |-> 1]}

\* the pick_top_k a caller may pass: left out, None, or a number >= 0
PickTopKArgs(V) ==
    {[kind |-> "omitted", val |-> 0], [kind |-> "none", val |-> 0]}
    \cup {[kind |-> "int", val |-> k] : k \in 0..(V + 1)}

\* def _sample(..., pick_top_k=10, ...) and def sample(..., pick_top_k=10, ...)
DefaultPickTopK == 10

\* the parameter as bound on entry
BindPickTopK(arg) ==
    IF arg.kind = "omitted" THEN [kind |-> "int", val |-> DefaultPickTopK] ELSE arg

\* if pick_top_k:
Truthy(k) == k.kind = "int" /\ k.val # 0

\* a slip: one entry more than k is kept
ZeroCountShort(V, k) == IF k + 1 < V THEN V - k - 1 ELSE 0

\* len(np.argsort(y_prob)[:-pick_top_k])
ZeroCount(V, k) == IF k < V THEN V - k ELSE 0

\* np.argsort(y_prob)[:z] as a set: z entries none of which is above an entry
\* left out; numpy leaves the order of equal entries open
ZeroSets(y, z) ==
    IF z = 0 THEN {{}}
    ELSE LET t == CHOOSE v \in {y[i] : i \in DOMAIN y} :
                      /\ Cardinality({i \in DOMAIN y : y[i] < v}) < z
                      /\ z <= Cardinality({i \in DOMAIN y : y[i] <= v})
             low == {i \in DOMAIN y : y[i] < t}
             ties == {i \in DOMAIN y : y[i] = t}
         IN {low \cup S : S \in KSubsets(ties, z - Cardinality(low))}

\* np.sum(y_prob) after the assignment of 0
NewMass(y, zeroed) == Mass([i \in DOMAIN y |-> IF i \in zeroed THEN 0 ELSE y[i]])

\* y_prob[...] = 0; y_prob /= np.sum(y_prob): the row num / den
Truncate(y, zeroed) ==
    [num |-> [i \in DOMAIN y |-> IF i \in zeroed THEN 0 ELSE y[i]],
     den |-> NewMass(y, zeroed)]

\* the rows sample_chars_from_probs can draw from, given the predicted row
TopK(y, k) ==
    IF Truthy(k)
    THEN {Truncate(y, Z) : Z \in ZeroSets(y, ZeroCount(Cardinality(DOMAIN y), k.val))}
    ELSE {[num |-> y, den |-> Mass(y)]}

\* np.random.choice(self._vocab_size, 1, p=y_prob): an id of positive weight
Choices(row) == {c \in DOMAIN row.num : row.num[c] > 0}

\* a slip: the loop runs while the longest paragraph is at most max_char_len
LoopCondInclusive(P, M) == MaxLenOf(P) <= M

\* while len(max(paragraphs, key=len)) < max_char_len
LoopCond(P, M) == MaxLenOf(P) < M

\* session.run(nodes['states']): the state of a row after its input, as the
\* characters the row has consumed (np.zeros is the empty history)
Forward(states, X) == [j \in DOMAIN X |-> states[j] \o X[j]]

\* the positions whose sampled character is not the border id
NextSampleIds(chars, T) == SelectSeq([j \in DOMAIN chars |-> j], LAMBDA j : chars[j] # T)

\* a slip: the leading columns are kept instead of the listed ones
GatherPrefix(states, ids) == [j \in DOMAIN ids |-> states[j]]

\* np.array(states)[:, :, np.array(next_sample_ids)], and the same
\* re-indexing of paragraph_ids
Gather(states, ids) == [j \in DOMAIN ids |-> states[ids[j]]]

\* paragraphs[paragraph_id].append(sampled_char_id), for the rows that go on
Appended(P, pids, chars, T) ==
    [p \in DOMAIN P |->
        IF \E j \in DOMAIN pids : pids[j] = p /\ chars[j] # T
        THEN Append(P[p], chars[CHOOSE j \in DOMAIN pids : pids[j] = p])
        ELSE P[p]]

\* X.append([paragraphs[paragraph_id][-1]])
LastChars(P, pids) == [j \in DOMAIN pids |-> <<P[pids[j]][Len(P[pids[j]])]>>]

\* the state on entering the while loop (lines 374-383), no prompts
InitSampler(V, N, M, arg) ==
    /\ vocab_size = V
    /\ sample_num = N
    /\ max_char_len = M
    /\ pick_top_k_arg = arg
    /\ pick_top_k = BindPickTopK(arg)
    /\ paragraphs = [p \in 1..N |-> <<paragraph_border_id>>]
    /\ sX = PadX(paragraphs)
    /\ s_seq_lens = SeqLens(paragraphs)
    /\ paragraph_ids = [j \in 1..N |-> j]
    /\ initial_states = [j \in 1..N |-> <<>>]
    /\ Y_prob_in = <<>>
    /\ Y_prob = <<>>
    /\ sampled_char_ids = <<>>
    /\ result = <<>>
    /\ finished = {}
    /\ steps = 0
    /\ prompts = <<>>
    /\ nested = {}
    /\ s_pc = "loop"

\* one pass of the while body (lines 386-414); D is what a row of
\* nodes['Y_prob'] can be
SampleStep(D) ==
    /\ s_pc = "loop"
    /\ LoopCond(paragraphs, max_char_len)
    /\ \E Yin \in [DOMAIN sX -> D] :
       \E Yout \in Rows([j \in DOMAIN sX |-> TopK(Yin[j], pick_top_k)]) :
       \E chars \in Rows([j \in DOMAIN sX |-> Choices(Yout[j])]) :
         LET states == Forward(initial_states, sX)
             next_sample_ids == NextSampleIds(chars, paragraph_border_id)
             next_ids == Gather(paragraph_ids, next_sample_ids)
         IN /\ Y_prob_in' = Yin
            /\ Y_prob' = Yout
            /\ sampled_char_ids' = chars
            /\ paragraphs' = Appended(paragraphs, paragraph_ids, chars, paragraph_border_id)
            /\ finished' = finished \cup
                  {paragraph_ids[j] : j \in {i \in DOMAIN chars : chars[i] = paragraph_border_id}}
            /\ steps' = steps + 1
            /\ IF next_sample_ids = <<>>
               THEN /\ s_pc' = "broke"
                    /\ UNCHANGED <<paragraph_ids, initial_states, sX, s_seq_lens>>
               ELSE /\ s_pc' = "loop"
                    /\ paragraph_ids' = next_ids
                    /\ initial_states' = Gather(states, next_sample_ids)
                    /\ sX' = PadX(LastChars(paragraphs', next_ids))
                    /\ s_seq_lens' = SeqLens(LastChars(paragraphs', next_ids))
    /\ UNCHANGED <<sample_num, max_char_len, pick_top_k_arg, pick_top_k, result,
                   prompts, nested>>

\* the loop is left (condition false, or break): decode, strip, return; the
\* encoder's decode is not part of the model, result is the id lists handed
\* to it, in order
SampleReturn ==
    /\ \/ s_pc = "broke"
       \/ s_pc = "loop" /\ ~LoopCond(paragraphs, max_char_len)
    /\ result' = paragraphs
    /\ s_pc' = "done"
    /\ UNCHANGED <<sample_num, max_char_len, pick_top_k_arg, pick_top_k, paragraphs,
                   paragraph_ids, sX, s_seq_lens, initial_states, Y_prob_in, Y_prob,
                   sampled_char_ids, finished, steps, prompts, nested>>

\* pick_top_k of the sampling calls: left out, None, or the single highest
\* entry
SampleArgs ==
    {[kind |-> "omitted", val |-> 0], [kind |-> "none", val |-> 0],
     [kind |-> "int", val |-> 1]}

\* sampling calls with a vocabulary of two characters, the border and one
\* other (what the loop does with a drawn character depends only on whether
\* it is the border id); the network predicts the uniform row, from which
\* both can be drawn
InitSample ==
    /\ paragraph_border_id \in Ids(2)
    /\ \E N \in 1..MaxSamples, M \in 1..MaxCharLen, arg \in SampleArgs :
          InitSampler(2, N, M, arg)

NextSample ==
    \/ SampleStep(Uniform(vocab_size))
          /\ UNCHANGED <<instance_vars, builder_vars, train_vars, valid_vars>>
    \/ SampleReturn /\ UNCHANGED <<instance_vars, builder_vars, train_vars, valid_vars>>

\* _sample() is called on its own
StartSample == InitSample /\ BuilderIdle /\ TrainIdle /\ ValidIdle

SpecSample == StartSample /\ [][NextSample]_vars

\* the interpreter runs _sample() to its end
FairSpecSample == SpecSample /\ WF_vars(NextSample)

\* one sample, one decode step, vocabularies up to MaxVocab, every kind of
\* predicted row
InitTopK ==
    /\ \E V \in 2..MaxVocab :
         /\ paragraph_border_id = 0
         /\ \E arg \in PickTopKArgs(V) : InitSampler(V, 1, 2, arg)

NextTopK ==
    \/ SampleStep(Distributions(vocab_size))
          /\ UNCHANGED <<instance_vars, builder_vars, train_vars, valid_vars>>
    \/ SampleReturn /\ UNCHANGED <<instance_vars, builder_vars, train_vars, valid_vars>>

\* _sample() is called for one decode step
StartTopK == InitTopK /\ BuilderIdle /\ TrainIdle /\ ValidIdle

SpecTopK == StartTopK /\ [][NextTopK]_vars

\* ------------------------------------------------- _sample() with prompts
\* the encoded prompts a caller may pass: a prompt is text without the border
\* character, encoded to a list of ids
PromptChars == Ids(2) \ {paragraph_border_id}

\* prompts=None, or a list of encoded prompts (of sample_num entries or not)
PromptLists ==
    {<<>>} \cup UNION {[1..n -> SeqsUpTo(PromptChars, MaxPromptLen)] : n \in 1..MaxSamples}

\* paragraphs[paragraph_id].append(self._encode_chars([prompt], fit=False)[0]):
\* the encoded prompt, a list, becomes ONE element of the paragraph
AppendPrompt(x, prompt) == Append(x, prompt)

\* _sample() is entered (before line 374)
InitPrompt ==
    /\ vocab_size = 2
    /\ paragraph_border_id \in Ids(2)
    /\ sample_num \in 1..MaxSamples
    /\ max_char_len \in 1..MaxCharLen
    /\ pick_top_k_arg \in SampleArgs
    /\ pick_top_k = BindPickTopK(pick_top_k_arg)
    /\ prompts \in PromptLists
    /\ s_pc = "start"
    /\ paragraphs = <<>>
    /\ paragraph_ids = <<>>
    /\ sX = <<>>
    /\ s_seq_lens = <<>>
    /\ initial_states = <<>>
    /\ Y_prob_in = <<>>
    /\ Y_prob = <<>>
    /\ sampled_char_ids = <<>>
    /\ result = <<>>
    /\ finished = {}
    /\ steps = 0
    /\ nested = {}

\* lines 374-383 without prompts (None or an empty list: if prompts is false)
SeedPlain ==
    /\ s_pc = "start"
    /\ prompts = <<>>
    /\ paragraphs' = [p \in 1..sample_num |-> <<paragraph_border_id>>]
    /\ nested' = {}
    /\ sX' = PadX(paragraphs')
    /\ s_seq_lens' = SeqLens(paragraphs')
    /\ paragraph_ids' = [j \in 1..sample_num |-> j]
    /\ initial_states' = [j \in 1..sample_num |-> <<>>]
    /\ s_pc' = "loop"
    /\ UNCHANGED <<sample_num, max_char_len, pick_top_k_arg, pick_top_k, prompts,
                   Y_prob_in, Y_prob, sampled_char_ids, result, finished, steps>>

\* assert sample_num == len(prompts) fails
SeedAssertFails ==
    /\ s_pc = "start"
    /\ prompts # <<>>
    /\ sample_num # Len(prompts)
    /\ paragraphs' = [p \in 1..sample_num |-> <<paragraph_border_id>>]
    /\ s_pc' = "raised"
    /\ UNCHANGED <<sample_num, max_char_len, pick_top_k_arg, pick_top_k, prompts,
                   paragraph_ids, sX, s_seq_lens, initial_states, Y_prob_in, Y_prob,
                   sampled_char_ids, result, finished, steps, nested>>

\* lines 374-383 with prompts: each paragraph is [border id, encoded prompt];
\* _add_padding pads the paragraphs themselves (all have 2 elements, nothing
\* is added) and returns them as X
SeedPrompts ==
    /\ s_pc = "start"
    /\ prompts # <<>>
    /\ sample_num = Len(prompts)
    /\ paragraphs' = [p \in 1..sample_num |->
                         AppendPrompt(<<paragraph_border_id>>, prompts[p])]
    /\ nested' = {<<p, Len(paragraphs'[p])>> : p \in 1..sample_num}
    /\ sX' = PadX(paragraphs')
    /\ s_seq_lens' = SeqLens(paragraphs')
    /\ paragraph_ids' = [j \in 1..sample_num |-> j]
    /\ initial_states' = [j \in 1..sample_num |-> <<>>]
    /\ s_pc' = "loop"
    /\ UNCHANGED <<sample_num, max_char_len, pick_top_k_arg, pick_top_k, prompts,
                   Y_prob_in, Y_prob, sampled_char_ids, result, finished, steps>>

\* X holds a list where the placeholder takes a character id
FeedsList == \E j \in DOMAIN sX : \E i \in DOMAIN sX[j] : <<paragraph_ids[j], i>> \in nested

\* session.run (line 386) is fed rows that hold a list: the conversion of X
\* to an integer array raises
SessionRaises ==
    /\ s_pc = "loop"
    /\ LoopCond(paragraphs, max_char_len)
    /\ FeedsList
    /\ s_pc' = "raised"
    /\ UNCHANGED <<sample_num, max_char_len, pick_top_k_arg, pick_top_k, prompts,
                   paragraphs, paragraph_ids, sX, s_seq_lens, initial_states, Y_prob_in,
                   Y_prob, sampled_char_ids, result, finished, steps, nested>>

NextPrompt ==
    \/ SeedPlain /\ UNCHANGED <<instance_vars, builder_vars, train_vars, valid_vars>>
    \/ SeedAssertFails /\ UNCHANGED <<instance_vars, builder_vars, train_vars, valid_vars>>
    \/ SeedPrompts /\ UNCHANGED <<instance_vars, builder_vars, train_vars, valid_vars>>
    \/ SessionRaises /\ UNCHANGED <<instance_vars, builder_vars, train_vars, valid_vars>>
    \/ ~FeedsList /\ SampleStep(Uniform(vocab_size))
          /\ UNCHANGED <<instance_vars, builder_vars, train_vars, valid_vars>>
    \/ SampleReturn /\ UNCHANGED <<instance_vars, builder_vars, train_vars, valid_vars>>

\* _sample() is called with or without prompts
StartPrompt == InitPrompt /\ BuilderIdle /\ TrainIdle /\ ValidIdle

SpecPrompt == StartPrompt /\ [][NextPrompt]_vars

\* ------------------------------------------- validate(): the sub-batches
\* ceil(len(X_valid) / valid_batch_num), true division
Ceil(a, b) == (a + b - 1) \div b

\* batch_size = ceil(len(X_valid) / valid_batch_num)
ValidBatchSize(X, K) == Ceil(Len(X), K)

\* X[lo:hi], a Python slice: the bounds are clipped to the list
Slice(X, lo, hi) == SubSeq(X, Min2(lo, Len(X)) + 1, Min2(hi, Len(X)))

\* X_valid[index * batch_size: (index + 1) * batch_size]
ValidBatch(X, K, index) ==
    Slice(X, index * ValidBatchSize(X, K), (index + 1) * ValidBatchSize(X, K))

\* validate() is entered with a split of 1..MaxValid sequences
InitValidate ==
    /\ \E V \in 1..MaxValid : X_valid = [i \in 1..V |-> i]
    /\ valid_batch_num \in 1..MaxValidBatchNum
    /\ v_pc = "loop"
    /\ v_index = 0
    /\ v_batches = <<>>

\* one pass of for index in range(valid_batch_num) on a batch that holds
\* sequences: the loss is computed with is_train False
ValidateBatch ==
    /\ v_pc = "loop"
    /\ v_index < valid_batch_num
    /\ ValidBatch(X_valid, valid_batch_num, v_index) # <<>>
    /\ v_batches' = Append(v_batches,
                          [X |-> ValidBatch(X_valid, valid_batch_num, v_index),
                           is_train |-> FALSE])
    /\ v_index' = v_index + 1
    /\ UNCHANGED <<X_valid, valid_batch_num, v_pc>>

\* one pass on an empty slice: session.run is fed [] for the placeholder X of
\* shape [None, None] and raises
ValidateEmptyBatch ==
    /\ v_pc = "loop"
    /\ v_index < valid_batch_num
    /\ ValidBatch(X_valid, valid_batch_num, v_index) = <<>>
    /\ v_batches' = Append(v_batches, [X |-> <<>>, is_train |-> FALSE])
    /\ v_pc' = "raised"
    /\ UNCHANGED <<X_valid, valid_batch_num, v_index>>

\* the loop is over: the mean loss and the perplexity are computed
ValidateDone ==
    /\ v_pc = "loop"
    /\ v_index = valid_batch_num
    /\ v_pc' = "done"
    /\ UNCHANGED <<X_valid, valid_batch_num, v_index, v_batches>>

NextValidate ==
    \/ ValidateBatch /\ UNCHANGED <<instance_vars, builder_vars, train_vars, sampler_vars>>
    \/ ValidateEmptyBatch /\ UNCHANGED <<instance_vars, builder_vars, train_vars, sampler_vars>>
    \/ ValidateDone /\ UNCHANGED <<instance_vars, builder_vars, train_vars, sampler_vars>>

\* validate() is looked at on its own, on an instance with a two-character
\* vocabulary
StartValidate ==
    /\ paragraph_border_id = 0
    /\ vocab_size = 2
    /\ InitValidate /\ BuilderIdle /\ TrainIdle /\ SamplerIdle

SpecValidate == StartValidate /\ [][NextValidate]_vars

\* ------------------------------------------------------------------ C1
\* C1: after _create_Y every pair (x', y') has len(x') = len(y') = len(x) + 1,
\* x' starts with the border id, y' ends with it, x'[1:] and y'[:-1] are the
\* original x; this for every x of the batch, the empty one included.
C1_TargetConstruction ==
    b_pc = "created" =>
        /\ DOMAIN bX = DOMAIN b_raw
        /\ DOMAIN bY = DOMAIN b_raw
        /\ \A j \in DOMAIN b_raw :
              /\ Len(bX[j]) = Len(b_raw[j]) + 1
              /\ Len(bY[j]) = Len(b_raw[j]) + 1
              /\ bX[j][1] = paragraph_border_id
              /\ bY[j][Len(bY[j])] = paragraph_border_id
              /\ Tail(bX[j]) = b_raw[j]
              /\ SubSeq(bY[j], 1, Len(bY[j]) - 1) = b_raw[j]

\* targets were built for a batch holding an empty and a longest paragraph
C1_Witness ==
    /\ b_pc = "created"
    /\ \E j \in DOMAIN b_raw : b_raw[j] = <<>>
    /\ \E j \in DOMAIN b_raw : Len(b_raw[j]) = MaxLen /\ b_raw[j][1] # paragraph_border_id

\* ------------------------------------------------------------------ C2
\* C2: _add_padding, with or without labels, on a non-empty ragged batch:
\* every input row (and label row) gets the batch's maximum pre-padding
\* length, the returned length of a row is its pre-padding length and at most
\* the padded length, every entry from the true length on is the padding id,
\* and the input and label matrices have the same shape.
C2_Padding ==
    [][(b_pc # "padded" /\ b_pc' = "padded") =>
        LET m == MaxLenOf(bX) IN
        /\ DOMAIN bX' = DOMAIN bX
        /\ DOMAIN b_lens' = DOMAIN bX
        /\ \A j \in DOMAIN bX :
              /\ Len(bX'[j]) = m
              /\ b_lens'[j] = Len(bX[j])
              /\ b_lens'[j] <= Len(bX'[j])
              /\ \A i \in (b_lens'[j] + 1)..Len(bX'[j]) : bX'[j][i] = padding_id
        /\ b_labels =>
              /\ DOMAIN bY' = DOMAIN bX'
              /\ \A j \in DOMAIN bX :
                    /\ Len(bY'[j]) = Len(bX'[j])
                    /\ \A i \in (b_lens'[j] + 1)..Len(bY'[j]) : bY'[j][i] = padding_id
        /\ ~b_labels => bY' = <<>>
    ]_vars

\* "ab", "abc" with labels: lengths [3, 4], both matrices padded to length 4
C2_Witness ==
    /\ b_pc = "padded"
    /\ b_labels
    /\ b_lens = <<3, 4>>
    /\ Len(bX[1]) = 4 /\ Len(bX[2]) = 4
    /\ Len(bY[1]) = 4 /\ Len(bY[2]) = 4
    /\ bX[1][4] = padding_id /\ bY[1][4] = padding_id

\* ------------------------------------------------------------------ C5
\* the perplexities measured so far
ObservedValues == {o[2] : o \in observed}

\* C5: a checkpoint is written at a validation exactly when its perplexity is
\* strictly below the best so far (inf at first), and at no other step; the
\* best perplexity never increases and after every validation is the minimum
\* of all perplexities measured; the checkpoint holds the weights of a
\* validation that measured that minimum, not those of the latest one.
C5_KeepBest ==
    /\ [](best_perplexity = MinOf(ObservedValues \cup {Inf}))
    /\ [](checkpoint # <<>> =>
            /\ <<checkpoint[1].weights, best_perplexity>> \in observed
            /\ \A o \in observed : o[2] >= best_perplexity)
    /\ [][/\ best_perplexity' <= best_perplexity
          /\ (pc = "check" /\ pc' = "sample") =>
                ((checkpoint' # checkpoint) <=> (perplexity' < best_perplexity))
          /\ (checkpoint' # checkpoint) => (pc = "check" /\ pc' = "sample")
       ]_vars

\* a later validation measured worse than the best: nothing was saved, the
\* checkpoint still holds the earlier weights
C5_Witness ==
    /\ pc = "sample"
    /\ checkpoint # <<>>
    /\ perplexity > best_perplexity
    /\ checkpoint[1].weights < params
    /\ Cardinality(observed) >= 3

\* ------------------------------------------------------------------ C6
\* the attributes of a CharLSTM instance
InstanceAttributes ==
    {"embedding_size", "rnn_size", "num_rnn_layers", "learning_rate", "rnn_dropouts",
     "final_dropout", "nodes", "graph", "vocab_size", "encoder", "num_params",
     "paragraph_border", "paragraph_border_id", "session"}

C7_Termination ==
    /\ iteration = 0
    /\ [](pc # "done" => (iteration <= max_iteration /\ iteration <= patience))
    /\ [][/\ (pc = "pad") =>
                /\ iteration' = iteration + batch_size
                /\ (pc' = "done") <=> (iteration' > Min2(max_iteration, patience))
          /\ (pc # "pad") => iteration' = iteration
       ]_vars
    /\ <>(pc = "done")

\* a run on a re-scanning generator halted by patience, max_iteration not
\* yet exceeded, after more than one training step
C7_Witness ==
    /\ pc = "done"
    /\ gen_restarts
    /\ iteration > patience
    /\ iteration <= max_iteration
    /\ params >= 2

\* ------------------------------------------------------------------ C8
\* C8: the list objects of a batch are copies: target construction and
\* padding leave the stored training collection as encoded, whatever the
\* number of batches and epochs; a batch is the same slice of the encoded
\* collection every time it comes round, and what is fed is border id +
\* original paragraph (+ this batch's padding).
C8_IndependentCopies ==
    /\ \A i \in DOMAIN X_train : heap[X_train[i]] = encoded[i]
    /\ pc \in {"check", "sample", "create"} =>
          \A j \in DOMAIN X_batch : heap[X_batch[j]] = encoded[batch_first + j - 1]
    /\ pc = "pad" =>
          \A j \in DOMAIN X_batch :
              /\ heap[X_batch[j]] = <<paragraph_border_id>> \o encoded[batch_first + j - 1]
              /\ Y_batch[j] = Append(encoded[batch_first + j - 1], paragraph_border_id)

\* the first batch has come round again in a later pass and has its targets
C8_Witness ==
    /\ pc = "pad"
    /\ batch_first = 1
    /\ batch_id >= Len(X_train)
    /\ Len(X_train) >= 2

C3_SamplingTermination ==
    /\ [](steps <= max_char_len - 1)
    /\ [](\A p \in DOMAIN paragraphs : Len(paragraphs[p]) <= max_char_len)
    /\ [](s_pc \in {"broke", "done"} =>
            \/ finished = 1..sample_num
            \/ MaxLenOf(paragraphs) >= max_char_len)
    /\ [](finished = 1..sample_num => s_pc # "loop")
    /\ [](s_pc = "done" =>
            /\ Len(result) = sample_num
            /\ \A p \in 1..sample_num :
                  /\ result[p] = paragraphs[p]
                  /\ result[p][1] = paragraph_border_id
                  /\ Len(result[p]) <= max_char_len)
    /\ [][s_pc = "loop" =>
            IF MaxLenOf(paragraphs) >= max_char_len
            THEN steps' = steps /\ s_pc' = "done"
            ELSE steps' = steps + 1
       ]_vars
    /\ <>(s_pc = "done")

\* a call that used all its M - 1 steps, one paragraph having finished early
C3_Witness ==
    /\ s_pc = "done"
    /\ max_char_len >= 3
    /\ steps = max_char_len - 1
    /\ finished # {}
    /\ finished # 1..sample_num
    /\ \E p \in 1..sample_num : Len(result[p]) = max_char_len

\* ------------------------------------------------------------------ C4
\* row r is row y cut to its k highest entries: k entries are left, none of
\* them below an entry set to zero, with their weights, and r sums to 1
TruncatedTo(y, r, k) ==
    LET kept == {i \in DOMAIN y : r.num[i] # 0}
    IN /\ Cardinality(kept) = k
       /\ \A i \in kept : \A o \in DOMAIN y \ kept : y[i] >= y[o]
       /\ \A i \in kept : \A o \in kept : r.num[i] * y[o] = r.num[o] * y[i]
       /\ r.den > 0
       /\ r.den = Mass(r.num)

\* row r is the distribution y as predicted
SameDistribution(y, r) ==
    /\ r.den > 0
    /\ r.den = Mass(r.num)
    /\ \A i \in DOMAIN y : r.num[i] * Mass(y) = y[i] * r.den

\* the property of C4 for a call whose truncation parameter is k
TopKProperty(k) ==
    \A j \in DOMAIN Y_prob :
        /\ (k.kind = "int" /\ 0 < k.val /\ k.val < vocab_size) =>
              /\ TruncatedTo(Y_prob_in[j], Y_prob[j], k.val)
              /\ Y_prob[j].num[sampled_char_ids[j]] # 0
        /\ (k.kind = "none" \/ (k.kind = "int" /\ k.val = 0)) =>
              /\ Y_prob[j].num = Y_prob_in[j]
              /\ SameDistribution(Y_prob_in[j], Y_prob[j])

\* C4: in sample_chars_from_probs, for 0 < k < vocabulary size the row drawn
\* from is the predicted row cut to k highest entries and renormalised, and
\* the character drawn is one of them; when k is 0 or None the row is the
\* predicted one. k is pick_top_k as bound on entry of _sample (10 when the
\* caller leaves the argument out).
C4_TopKTruncation == TopKProperty(pick_top_k)

\* k entries of a larger vocabulary were kept, an entry as heavy as a kept
\* one was set to zero, and the row was renormalised
C4_Witness ==
    /\ steps = 1
    /\ pick_top_k_arg.kind = "int"
    /\ 1 < pick_top_k.val
    /\ pick_top_k.val < vocab_size
    /\ Cardinality({i \in Ids(vocab_size) : Y_prob[1].num[i] # 0}) = pick_top_k.val
    /\ \E i \in Ids(vocab_size) : \E o \in Ids(vocab_size) :
          /\ Y_prob[1].num[i] # 0
          /\ Y_prob[1].num[o] = 0
          /\ Y_prob_in[1][i] = Y_prob_in[1][o]
    /\ Y_prob[1].den < Mass(Y_prob_in[1])

\* ----------------------------------------------------------------- C10
\* the paragraphs a decode step is run for
Active == {paragraph_ids[j] : j \in DOMAIN paragraph_ids}

\* all of a list but its last element
Front(x) == SubSeq(x, 1, Len(x) - 1)

SeedIds(p) == IF prompts = <<>> THEN <<paragraph_border_id>>
              ELSE <<paragraph_border_id>> \o prompts[p]

\* paragraph p holds character ids only
Flat(p) == \A i \in DOMAIN paragraphs[p] : <<p, i>> \notin nested

\* C11: once seeded, every paragraph is a flat list of ids that starts with
\* the border id followed by the ids of its own prompt; and whenever a decode
\* step is about to run, the first one with prompts included, X holds for
\* each active paragraph exactly one character, the paragraph's last.
C11_SeedAndStepInput ==
    /\ s_pc \in {"loop", "broke", "done"} =>
          \A p \in 1..sample_num :
              /\ Flat(p)
              /\ Len(paragraphs[p]) >= Len(SeedIds(p))
              /\ SubSeq(paragraphs[p], 1, Len(SeedIds(p))) = SeedIds(p)
    /\ (s_pc = "loop" /\ LoopCond(paragraphs, max_char_len)) =>
          /\ Len(sX) = Len(paragraph_ids)
          /\ \A j \in DOMAIN paragraph_ids :
                /\ Flat(paragraph_ids[j])
                /\ s_seq_lens[j] = 1
                /\ sX[j] = LastChars(paragraphs, paragraph_ids)[j]


\* ----------------------------------------------------------------- C12
RECURSIVE Concat(_, _)
\* the sequences of the first n batches fed, in the order fed
Concat(B, n) == IF n = 0 THEN <<>> ELSE Concat(B, n - 1) \o B[n].X

\* C12: the sub-batches one validation evaluates are consecutive slices of
\* the split, each sequence in at most one of them; every sub-batch holds at
\* least one sequence and is evaluated with dropout disabled; when the
\* validation is over, valid_batch_num sub-batches have covered every
\* sequence of the split exactly once.
C12_ValidSubBatches ==
    /\ \A i \in DOMAIN v_batches :
          /\ v_batches[i].X # <<>>
          /\ ~v_batches[i].is_train
    /\ Len(v_batches) <= valid_batch_num
    /\ Concat(v_batches, Len(v_batches)) =
          SubSeq(X_valid, 1, Len(Concat(v_batches, Len(v_batches))))
    /\ v_pc = "done" =>
          /\ Len(v_batches) = valid_batch_num
          /\ Concat(v_batches, Len(v_batches)) = X_valid

====
